---- MODULE Spec2Model ----
(***************************************************************************)
(* A model of the two diagnostic scripts of the repository:               *)
(*   src/analyzeDatabase.py  (analyze_database, the domain report)        *)
(*   src/checkTables.py      (the table lister, a module body)            *)
(* The database file is the variable db; every cursor.execute of the      *)
(* scripts is one action, which appends the query to the log `queries`    *)
(* and the lines it prints to `output`.                                    *)
(***************************************************************************)
EXTENDS Integers, Sequences, FiniteSets, TLC

VARIABLES
    db,            \* the database file: catalog (sqlite_master), columns, rows
    script,        \* which script this process runs
    run,           \* number of the current invocation of the script
    pc,            \* position of the script
    conn,          \* the sqlite3 connection: "none", "open", "closed"
    closes,        \* how many times conn.close() ran in this invocation
    queries,       \* log of the statements handed to cursor.execute
    output,        \* what was printed to stdout in this invocation
    prevOutput,    \* stdout of the previous invocation
    file_count, poi_count, rel_count, outbox_count, empty_names,
    tables,        \* checkTables: result of the catalog query
    idx,           \* checkTables: position of the second for loop in tables
    droppedEarly   \* history: listed tables an external writer dropped
                   \* after the catalog read and before their inspection

vars == <<db, script, run, pc, conn, closes, queries, output, prevOutput,
          file_count, poi_count, rel_count, outbox_count, empty_names,
          tables, idx, droppedEarly>>

locals == <<file_count, poi_count, rel_count, outbox_count, empty_names,
            tables, idx>>

-----------------------------------------------------------------------------
\* Bounds of the model.
MaxPois == 6
MaxRows == 2
MaxRuns == 2

\* LIMIT 5 of the two sample queries.
SampleLimit == 5

NULL == "<null>"

-----------------------------------------------------------------------------
\* Sequence helpers.
Range(s) == {s[i] : i \in DOMAIN s}
Min(a, b) == IF a < b THEN a ELSE b
SeqsUpTo(S, n) == UNION {[1..k -> S] : k \in 0..n}
Perms(S) == {s \in [1..Cardinality(S) -> S] : \A i, j \in DOMAIN s : i # j => s[i] # s[j]}
Copies(x, n) == [i \in 1..n |-> x]
IsPrefix(s, t) == Len(s) <= Len(t) /\ \A i \in DOMAIN s : s[i] = t[i]

-----------------------------------------------------------------------------
\* The schema the scripts expect, and the databases the runs start from.
StdCatalog == <<"files", "pois", "relationships", "relationship_evidence",
                "transactional_outbox">>
StdTables == Range(StdCatalog)
AllTables == StdTables \cup {"order"}

StdColumns ==
    [t \in AllTables |->
       CASE t = "files" -> << <<"file_path", "TEXT">>, <<"status", "TEXT">> >>
         [] t = "pois" -> << <<"file_path", "TEXT">>, <<"name", "TEXT">>,
                             <<"type", "TEXT">>, <<"start_line", "INTEGER">>,
                             <<"end_line", "INTEGER">> >>
         [] t = "relationships" -> << <<"type", "TEXT">>, <<"status", "TEXT">> >>
         [] t = "relationship_evidence" -> << <<"relationship_id", "INTEGER">> >>
         [] t = "transactional_outbox" -> << <<"event_type", "TEXT">>,
                                             <<"processed", "INTEGER">> >>
         [] OTHER -> << <<"item", "TEXT">>, <<"qty", "INT">> >>]

PoiRow(f, n, t) ==
    [file_path |-> f, name |-> n, type |-> t, start_line |-> 1, end_line |-> 2]
PoiPool == { PoiRow("a.js", "foo", "fn"), PoiRow("b.js", NULL, "cls"),
             PoiRow("c.js", "", NULL), PoiRow("d.js", "bar", "") }
RelPool == { [type |-> "calls", status |-> "validated"],
             [type |-> "calls", status |-> "pending"],
             [type |-> NULL, status |-> NULL],
             [type |-> "uses", status |-> "validated"] }
OutboxPool == { [event_type |-> "poi", processed |-> 0],
                [event_type |-> "poi", processed |-> 1],
                [event_type |-> NULL, processed |-> 0],
                [event_type |-> "rel", processed |-> 1] }
FilePool == { [file_path |-> "a.js", status |-> "processed"],
              [file_path |-> "b.js", status |-> "pending"] }

BaseRow ==
    [t \in AllTables |->
       CASE t = "files" -> [file_path |-> "a.js", status |-> "processed"]
         [] t = "pois" -> PoiRow("a.js", "foo", "fn")
         [] t = "relationships" -> [type |-> "calls", status |-> "validated"]
         [] t = "relationship_evidence" -> [relationship_id |-> 1]
         [] t = "transactional_outbox" -> [event_type |-> "poi", processed |-> 0]
         [] OTHER -> [item |-> "x", qty |-> 1]]

\* A database holding the tables of cat (in sqlite_master order), with the
\* given rows; a table not in the catalog has neither columns nor rows.
MkDB(cat, cols, rws) ==
    [catalog |-> cat,
     columns |-> [t \in AllTables |-> IF t \in Range(cat) THEN cols[t] ELSE <<>>],
     rows    |-> [t \in AllTables |-> IF t \in Range(cat) THEN rws[t] ELSE <<>>]]

StdRows == [t \in AllTables |-> <<BaseRow[t]>>]

\* Short pois tables over every kind of row, long ones (beyond the sample
\* limit) over two kinds.
LongPool == { PoiRow("a.js", "foo", "fn"), PoiRow("c.js", "", NULL) }
PoisDBs ==
    { MkDB(StdCatalog, StdColumns, [StdRows EXCEPT !["pois"] = s]) :
        s \in SeqsUpTo(PoiPool, MaxRows + 1) \cup SeqsUpTo(LongPool, MaxPois) }
RelDBs ==
    { MkDB(StdCatalog, StdColumns, [StdRows EXCEPT !["relationships"] = s]) :
        s \in SeqsUpTo(RelPool, MaxRows) }
OutboxDBs ==
    { MkDB(StdCatalog, StdColumns, [StdRows EXCEPT !["transactional_outbox"] = s]) :
        s \in SeqsUpTo(OutboxPool, MaxRows) }
FileDBs ==
    { MkDB(StdCatalog, StdColumns,
           [StdRows EXCEPT !["files"] = s[1], !["relationship_evidence"] = s[2]]) :
        s \in SeqsUpTo(FilePool, MaxRows)
              \X {Copies(BaseRow["relationship_evidence"], n) : n \in 0..MaxRows} }
\* Any subset of the expected tables present, each present table empty or not.
SchemaDBs ==
    { MkDB(SelectSeq(StdCatalog, LAMBDA t : t \in S), StdColumns,
           [t \in AllTables |-> IF t \in E THEN <<>> ELSE StdRows[t]]) :
        S \in SUBSET StdTables, E \in SUBSET StdTables }
\* One column of one table missing from the schema.
WithoutColumn(t, c) ==
    LET cols == SelectSeq(StdColumns[t], LAMBDA p : p[1] # c)
    IN MkDB(StdCatalog, [StdColumns EXCEPT ![t] = cols],
            [StdRows EXCEPT ![t] = <<[k \in {p[1] : p \in Range(cols)} |-> BaseRow[t][k]]>>])
ColumnDBs ==
    { WithoutColumn(tc[1], tc[2]) :
        tc \in { <<"files", "status">>, <<"pois", "type">>, <<"pois", "end_line">>,
                 <<"pois", "name">>, <<"relationships", "type">>,
                 <<"relationships", "status">>,
                 <<"transactional_outbox", "processed">> } }
AnalyzeDBs == PoisDBs \cup RelDBs \cup OutboxDBs \cup FileDBs \cup SchemaDBs \cup ColumnDBs

\* Databases for the table lister: any tables in any catalog order, one of
\* them with a name that is an SQL keyword.
CheckNames == {"files", "pois", "order"}
CheckDBs ==
    { MkDB(cat, StdColumns,
           [t \in AllTables |-> IF t \in CheckNames THEN Copies(BaseRow[t], n[t])
                                                   ELSE <<>>]) :
        cat \in UNION {Perms(S) : S \in SUBSET CheckNames},
        n \in [CheckNames -> 0..MaxRows] }
      \cup { MkDB(StdCatalog, StdColumns, StdRows) }

-----------------------------------------------------------------------------
\* What the SQLite driver does with a statement.

Query(kind, table) == [kind |-> kind, table |-> table]

ColumnNames(d, t) == {p[1] : p \in Range(d.columns[t])}

\* The columns each statement of analyze_database names.
NeededColumns(kind, table) ==
    CASE kind = "SAMPLE" /\ table = "files" -> {"file_path", "status"}
      [] kind = "SAMPLE" /\ table = "pois" ->
             {"file_path", "name", "type", "start_line", "end_line"}
      [] kind = "GROUP_TYPE" -> {"type"}
      [] kind = "GROUP_STATUS" -> {"status"}
      [] kind = "VALIDATED" -> {"status"}
      [] kind = "GROUP_OUTBOX" -> {"event_type", "processed"}
      [] kind = "EMPTY_NAME" -> {"name"}
      [] kind = "EMPTY_TYPE" -> {"type"}
      [] OTHER -> {}

\* A statement with a literal table name succeeds iff the table exists and
\* has the columns the statement names; otherwise execute raises
\* sqlite3.OperationalError.
QueryOk(q) ==
    /\ q.table \in Range(db.catalog)
    /\ NeededColumns(q.kind, q.table) \subseteq ColumnNames(db, q.table)

\* checkTables puts the table name into the statement text unquoted, so the
\* statement parses only when the name is a bare identifier (not a keyword,
\* no blank, no punctuation).
BareIdentifiers == AllTables \ {"order"}
Parses(name) == name \in BareIdentifiers

\* Limit with the LIMIT clause left out.
LimitAll(rws, n) == rws

\* rows LIMIT n of a table scan
Limit(rws, n) == SubSeq(rws, 1, Min(n, Len(rws)))

Project(rws, cols) == [i \in DOMAIN rws |-> [k \in DOMAIN cols |-> rws[i][cols[k]]]]

\* GroupBy counting COUNT(DISTINCT key) instead of COUNT(*).
GroupByDistinct(keys) == { <<k, 1>> : k \in Range(keys) }

\* SELECT key, COUNT(*) ... GROUP BY key, over the key values of the rows
\* (NULL is a group of its own).
GroupBy(keys) ==
    { <<k, Cardinality({i \in DOMAIN keys : keys[i] = k})>> : k \in Range(keys) }

Column(rws, c) == [i \in DOMAIN rws |-> rws[i][c]]
Column2(rws, c1, c2) == [i \in DOMAIN rws |-> <<rws[i][c1], rws[i][c2]>>]

\* IsEmpty without the IS NULL test.
IsEmptyString(v) == v = ""

\* WHERE x IS NULL OR x = ''
IsEmpty(v) == v = NULL \/ v = ""
CountWhereEmpty(rws, c) == Cardinality({i \in DOMAIN rws : IsEmpty(rws[i][c])})

\* WHERE status = 'validated' (never true of NULL)
CountValidated(rws) == Cardinality({i \in DOMAIN rws : rws[i]["status"] = "validated"})

\* A printed line (or block of lines under one heading).
Line(label, value) == [label |-> label, value |-> value]
Separator == Line("=====", 0)

-----------------------------------------------------------------------------
Init ==
    /\ \/ script = "analyzeDatabase" /\ db \in AnalyzeDBs
       \/ script = "checkTables" /\ db \in CheckDBs
    /\ run = 1
    /\ pc = "Connect"
    /\ conn = "none"
    /\ closes = 0
    /\ queries = <<>>
    /\ output = <<>>
    /\ prevOutput = <<>>
    /\ file_count = 0 /\ poi_count = 0 /\ rel_count = 0
    /\ outbox_count = 0 /\ empty_names = 0
    /\ tables = <<>>
    /\ idx = 0
    /\ droppedEarly = {}

\* Raise with the exception caught and the connection closed on the way out.
RaiseClosing(q) ==
    /\ queries' = Append(queries, q)
    /\ pc' = "failed"
    /\ conn' = "closed"
    /\ closes' = closes + 1
    /\ UNCHANGED <<db, script, run, output, prevOutput, locals, droppedEarly>>

\* Raise with the exception caught and reported, the script carrying on to
\* its end.
RaiseRecovering(q) ==
    /\ queries' = Append(queries, q)
    /\ output' = Append(output, [label |-> "error", value |-> 0])
    /\ pc' = "Close"
    /\ UNCHANGED <<db, script, run, conn, closes, prevOutput, locals, droppedEarly>>

\* cursor.execute(q) raised: the exception leaves the script, nothing after
\* the statement runs.
Raise(q) ==
    /\ queries' = Append(queries, q)
    /\ pc' = "failed"
    /\ UNCHANGED <<db, script, run, conn, closes, output, prevOutput, locals,
                   droppedEarly>>

\* Everything an analyze_database step leaves alone besides its own locals.
Frame == UNCHANGED <<db, script, run, conn, closes, prevOutput, tables, idx,
                     droppedEarly>>

-----------------------------------------------------------------------------
\* analyze_database

Connect ==
    /\ pc = "Connect"
    /\ conn' = "open"
    /\ IF script = "analyzeDatabase"
         THEN /\ output' = <<Line("=== DATABASE ANALYSIS ===", 0)>>
              /\ pc' = "CountFiles"
         ELSE /\ output' = <<>>
              /\ pc' = "ListTables"
    /\ UNCHANGED <<db, script, run, closes, queries, prevOutput, locals,
                   droppedEarly>>

CountFiles ==
    /\ script = "analyzeDatabase" /\ pc = "CountFiles"
    /\ LET q == Query("COUNT", "files")
           n == Len(db.rows["files"])
       IN IF ~QueryOk(q) THEN Raise(q)
          ELSE /\ queries' = Append(queries, q)
               /\ file_count' = n
               /\ IF n > 0
                    THEN /\ output' = Append(output, Line("Files processed", n))
                         /\ pc' = "SampleFiles"
                    ELSE /\ output' = output \o <<Line("Files processed", n), Separator>>
                         /\ pc' = "CountPois"
               /\ UNCHANGED <<poi_count, rel_count, outbox_count, empty_names>>
               /\ Frame

\* SampleFiles removing the rows it sampled from the table.
SampleFilesConsuming ==
    /\ script = "analyzeDatabase" /\ pc = "SampleFiles"
    /\ queries' = Append(queries, Query("SAMPLE", "files"))
    /\ output' = output \o
         <<Line("Sample files",
                Project(Limit(db.rows["files"], SampleLimit), <<"file_path", "status">>)),
           Separator>>
    /\ db' = [db EXCEPT !.rows["files"] =
                SubSeq(@, Min(SampleLimit, Len(@)) + 1, Len(@))]
    /\ pc' = "CountPois"
    /\ UNCHANGED <<script, run, conn, closes, prevOutput, locals, droppedEarly>>

SampleFiles ==
    /\ script = "analyzeDatabase" /\ pc = "SampleFiles"
    /\ LET q == Query("SAMPLE", "files")
       IN IF ~QueryOk(q) THEN Raise(q)
          ELSE /\ queries' = Append(queries, q)
               /\ output' = output \o
                    <<Line("Sample files",
                           Project(Limit(db.rows["files"], SampleLimit),
                                   <<"file_path", "status">>)),
                      Separator>>
               /\ pc' = "CountPois"
               /\ UNCHANGED <<file_count, poi_count, rel_count, outbox_count,
                              empty_names>>
               /\ Frame

\* CountPois going to the sample listing right after the count, without
\* the breakdown by type.
CountPoisSampleFirst ==
    /\ script = "analyzeDatabase" /\ pc = "CountPois"
    /\ LET q == Query("COUNT", "pois")
           n == Len(db.rows["pois"])
       IN IF ~QueryOk(q) THEN Raise(q)
          ELSE /\ queries' = Append(queries, q)
               /\ poi_count' = n
               /\ IF n > 0
                    THEN /\ output' = Append(output, Line("POIs extracted", n))
                         /\ pc' = "SamplePois"
                    ELSE /\ output' = output \o <<Line("POIs extracted", n), Separator>>
                         /\ pc' = "CountRels"
               /\ UNCHANGED <<file_count, rel_count, outbox_count, empty_names>>
               /\ Frame

CountPois ==
    /\ script = "analyzeDatabase" /\ pc = "CountPois"
    /\ LET q == Query("COUNT", "pois")
           n == Len(db.rows["pois"])
       IN IF ~QueryOk(q) THEN Raise(q)
          ELSE /\ queries' = Append(queries, q)
               /\ poi_count' = n
               /\ IF n > 0
                    THEN /\ output' = Append(output, Line("POIs extracted", n))
                         /\ pc' = "PoiTypes"
                    ELSE /\ output' = output \o <<Line("POIs extracted", n), Separator>>
                         /\ pc' = "CountRels"
               /\ UNCHANGED <<file_count, rel_count, outbox_count, empty_names>>
               /\ Frame

PoiTypes ==
    /\ script = "analyzeDatabase" /\ pc = "PoiTypes"
    /\ LET q == Query("GROUP_TYPE", "pois")
       IN IF ~QueryOk(q) THEN Raise(q)
          ELSE /\ queries' = Append(queries, q)
               /\ output' = Append(output,
                    Line("POI types", GroupBy(Column(db.rows["pois"], "type"))))
               /\ pc' = "SamplePois"
               /\ UNCHANGED <<file_count, poi_count, rel_count, outbox_count,
                              empty_names>>
               /\ Frame

SamplePois ==
    /\ script = "analyzeDatabase" /\ pc = "SamplePois"
    /\ LET q == Query("SAMPLE", "pois")
       IN IF ~QueryOk(q) THEN Raise(q)
          ELSE /\ queries' = Append(queries, q)
               /\ output' = output \o
                    <<Line("Sample POIs",
                           Project(Limit(db.rows["pois"], SampleLimit),
                                   <<"file_path", "name", "type", "start_line",
                                     "end_line">>)),
                      Separator>>
               /\ pc' = "CountRels"
               /\ UNCHANGED <<file_count, poi_count, rel_count, outbox_count,
                              empty_names>>
               /\ Frame

CountRels ==
    /\ script = "analyzeDatabase" /\ pc = "CountRels"
    /\ LET q == Query("COUNT", "relationships")
           n == Len(db.rows["relationships"])
       IN IF ~QueryOk(q) THEN Raise(q)
          ELSE /\ queries' = Append(queries, q)
               /\ rel_count' = n
               /\ IF n > 0
                    THEN /\ output' = Append(output, Line("Relationships discovered", n))
                         /\ pc' = "RelTypes"
                    ELSE /\ output' = output \o
                              <<Line("Relationships discovered", n), Separator>>
                         /\ pc' = "CountEvidence"
               /\ UNCHANGED <<file_count, poi_count, outbox_count, empty_names>>
               /\ Frame

RelTypes ==
    /\ script = "analyzeDatabase" /\ pc = "RelTypes"
    /\ LET q == Query("GROUP_TYPE", "relationships")
       IN IF ~QueryOk(q) THEN Raise(q)
          ELSE /\ queries' = Append(queries, q)
               /\ output' = Append(output,
                    Line("Relationship types",
                         GroupBy(Column(db.rows["relationships"], "type"))))
               /\ pc' = "RelStatuses"
               /\ UNCHANGED <<file_count, poi_count, rel_count, outbox_count,
                              empty_names>>
               /\ Frame

RelStatuses ==
    /\ script = "analyzeDatabase" /\ pc = "RelStatuses"
    /\ LET q == Query("GROUP_STATUS", "relationships")
       IN IF ~QueryOk(q) THEN Raise(q)
          ELSE /\ queries' = Append(queries, q)
               /\ output' = Append(output,
                    Line("Relationship statuses",
                         GroupBy(Column(db.rows["relationships"], "status"))))
               /\ pc' = "ValidatedCount"
               /\ UNCHANGED <<file_count, poi_count, rel_count, outbox_count,
                              empty_names>>
               /\ Frame

ValidatedCount ==
    /\ script = "analyzeDatabase" /\ pc = "ValidatedCount"
    /\ LET q == Query("VALIDATED", "relationships")
       IN IF ~QueryOk(q) THEN Raise(q)
          ELSE /\ queries' = Append(queries, q)
               /\ output' = output \o
                    <<Line("Validated relationships",
                           CountValidated(db.rows["relationships"])),
                      Separator>>
               /\ pc' = "CountEvidence"
               /\ UNCHANGED <<file_count, poi_count, rel_count, outbox_count,
                              empty_names>>
               /\ Frame

CountEvidence ==
    /\ script = "analyzeDatabase" /\ pc = "CountEvidence"
    /\ LET q == Query("COUNT", "relationship_evidence")
       IN IF ~QueryOk(q) THEN Raise(q)
          ELSE /\ queries' = Append(queries, q)
               /\ output' = Append(output,
                    Line("Relationship evidence entries",
                         Len(db.rows["relationship_evidence"])))
               /\ pc' = "CountOutbox"
               /\ UNCHANGED <<file_count, poi_count, rel_count, outbox_count,
                              empty_names>>
               /\ Frame

\* AfterOutbox without the poi_count guard.
AfterOutboxUnguarded == "EmptyNames"

\* if poi_count > 0: (line 80), reached once the outbox section is printed
AfterOutbox == IF poi_count > 0 THEN "EmptyNames" ELSE "Close"

CountOutbox ==
    /\ script = "analyzeDatabase" /\ pc = "CountOutbox"
    /\ LET q == Query("COUNT", "transactional_outbox")
           n == Len(db.rows["transactional_outbox"])
       IN IF ~QueryOk(q) THEN Raise(q)
          ELSE /\ queries' = Append(queries, q)
               /\ outbox_count' = n
               /\ IF n > 0
                    THEN /\ output' = Append(output,
                                        Line("Transactional outbox entries", n))
                         /\ pc' = "OutboxStatus"
                    ELSE /\ output' = output \o
                              <<Line("Transactional outbox entries", n), Separator>>
                         /\ pc' = AfterOutbox
               /\ UNCHANGED <<file_count, poi_count, rel_count, empty_names>>
               /\ Frame

OutboxStatus ==
    /\ script = "analyzeDatabase" /\ pc = "OutboxStatus"
    /\ LET q == Query("GROUP_OUTBOX", "transactional_outbox")
       IN IF ~QueryOk(q) THEN Raise(q)
          ELSE /\ queries' = Append(queries, q)
               /\ output' = output \o
                    <<Line("Outbox status",
                           GroupBy(Column2(db.rows["transactional_outbox"],
                                           "event_type", "processed"))),
                      Separator>>
               /\ pc' = AfterOutbox
               /\ UNCHANGED <<file_count, poi_count, rel_count, outbox_count,
                              empty_names>>
               /\ Frame

EmptyNames ==
    /\ script = "analyzeDatabase" /\ pc = "EmptyNames"
    /\ LET q == Query("EMPTY_NAME", "pois")
       IN IF ~QueryOk(q) THEN Raise(q)
          ELSE /\ queries' = Append(queries, q)
               /\ empty_names' = CountWhereEmpty(db.rows["pois"], "name")
               /\ pc' = "EmptyTypes"
               /\ UNCHANGED <<output, file_count, poi_count, rel_count, outbox_count>>
               /\ Frame

EmptyTypes ==
    /\ script = "analyzeDatabase" /\ pc = "EmptyTypes"
    /\ LET q == Query("EMPTY_TYPE", "pois")
       IN IF ~QueryOk(q) THEN Raise(q)
          ELSE /\ queries' = Append(queries, q)
               /\ output' = output \o
                    <<Line("POIs with empty names", empty_names),
                      Line("POIs with empty types",
                           CountWhereEmpty(db.rows["pois"], "type"))>>
               /\ pc' = "SamplePoiFull"
               /\ UNCHANGED <<file_count, poi_count, rel_count, outbox_count,
                              empty_names>>
               /\ Frame

\* SELECT * FROM pois LIMIT 1, printed column by column under the names of
\* cursor.description; nothing is printed when fetchone() returns None.
SamplePoiFull ==
    /\ script = "analyzeDatabase" /\ pc = "SamplePoiFull"
    /\ LET q == Query("DUMP", "pois")
           got == Limit(db.rows["pois"], 1)
           cols == db.columns["pois"]
       IN IF ~QueryOk(q) THEN Raise(q)
          ELSE /\ queries' = Append(queries, q)
               /\ output' = IF got # <<>>
                              THEN Append(output,
                                     Line("Sample POI full data",
                                          [k \in DOMAIN cols |->
                                             <<cols[k][1], got[1][cols[k][1]]>>]))
                              ELSE output
               /\ pc' = "Close"
               /\ UNCHANGED <<file_count, poi_count, rel_count, outbox_count,
                              empty_names>>
               /\ Frame

\* conn.close(), the last statement of both scripts
Close ==
    /\ pc = "Close"
    /\ conn' = "closed"
    /\ closes' = closes + 1
    /\ pc' = "done"
    /\ UNCHANGED <<db, script, run, queries, output, prevOutput, locals,
                   droppedEarly>>

-----------------------------------------------------------------------------
\* checkTables

\* SELECT name FROM sqlite_master WHERE type='table', then the first loop,
\* which only prints.
ListTables ==
    /\ script = "checkTables" /\ pc = "ListTables"
    /\ queries' = Append(queries, Query("CATALOG", "sqlite_master"))
    /\ tables' = db.catalog
    /\ output' = Append(output, Line("Tables in database", db.catalog))
    /\ idx' = 1
    /\ pc' = IF db.catalog = <<>> THEN "Close" ELSE "TableInfo"
    /\ UNCHANGED <<db, script, run, conn, closes, prevOutput, file_count,
                   poi_count, rel_count, outbox_count, empty_names, droppedEarly>>

\* The heading is printed before PRAGMA table_info(<name>) is executed.  The
\* pragma raises on a statement that does not parse and returns no rows for
\* a table that does not exist.
TableInfo ==
    /\ script = "checkTables" /\ pc = "TableInfo"
    /\ LET name == tables[idx]
           q == Query("TABLE_INFO", name)
       IN /\ queries' = Append(queries, q)
          /\ IF ~Parses(name)
               THEN /\ output' = Append(output, Line("structure", name))
                    /\ pc' = "failed"
               ELSE /\ output' = output \o
                         <<Line("structure", name), Line("columns", db.columns[name])>>
                    /\ pc' = "CountRows"
    /\ UNCHANGED <<db, script, run, conn, closes, prevOutput, locals, droppedEarly>>

\* CountRows skipping a table that no longer exists.
CountRowsSkipMissing ==
    /\ script = "checkTables" /\ pc = "CountRows"
    /\ LET name == tables[idx]
           q == Query("COUNT", name)
       IN /\ queries' = Append(queries, q)
          /\ output' = IF Parses(name) /\ QueryOk(q)
                         THEN Append(output, Line("Row count", Len(db.rows[name])))
                         ELSE output
          /\ idx' = idx + 1
          /\ pc' = IF idx < Len(tables) THEN "TableInfo" ELSE "Close"
          /\ UNCHANGED <<db, script, run, conn, closes, prevOutput, file_count,
                         poi_count, rel_count, outbox_count, empty_names,
                         tables, droppedEarly>>

\* SELECT COUNT(*) FROM <name>
CountRows ==
    /\ script = "checkTables" /\ pc = "CountRows"
    /\ LET name == tables[idx]
           q == Query("COUNT", name)
       IN IF ~(Parses(name) /\ QueryOk(q)) THEN Raise(q)
          ELSE /\ queries' = Append(queries, q)
               /\ output' = Append(output, Line("Row count", Len(db.rows[name])))
               /\ idx' = idx + 1
               /\ pc' = IF idx < Len(tables) THEN "TableInfo" ELSE "Close"
               /\ UNCHANGED <<db, script, run, conn, closes, prevOutput, file_count,
                              poi_count, rel_count, outbox_count, empty_names,
                              tables, droppedEarly>>

-----------------------------------------------------------------------------
\* The environment.

\* The script is started again after it ended (python exits, closing what
\* it left open; the new process starts from scratch).
Rerun ==
    /\ pc \in {"done", "failed"}
    /\ run < MaxRuns
    /\ run' = run + 1
    /\ prevOutput' = output
    /\ pc' = "Connect"
    /\ conn' = "none"
    /\ closes' = 0
    /\ queries' = <<>>
    /\ output' = <<>>
    /\ file_count' = 0 /\ poi_count' = 0 /\ rel_count' = 0
    /\ outbox_count' = 0 /\ empty_names' = 0
    /\ tables' = <<>>
    /\ idx' = 0
    /\ droppedEarly' = {}
    /\ UNCHANGED <<db, script>>

\* An external writer drops a table while checkTables holds its connection.
DropTable ==
    /\ script = "checkTables" /\ conn = "open"
    /\ pc \notin {"done", "failed"}
    /\ \E t \in Range(db.catalog) :
         /\ db' = MkDB(SelectSeq(db.catalog, LAMBDA x : x # t), db.columns, db.rows)
         /\ droppedEarly' =
              IF /\ pc \in {"TableInfo", "CountRows"}
                 /\ \E k \in DOMAIN tables :
                      /\ tables[k] = t
                      /\ (k > idx \/ (k = idx /\ pc = "TableInfo"))
                THEN droppedEarly \cup {t}
                ELSE droppedEarly
    /\ UNCHANGED <<script, run, pc, conn, closes, queries, output, prevOutput,
                   locals>>

Next ==
    \/ Connect
    \/ CountFiles \/ SampleFiles
    \/ CountPois \/ PoiTypes \/ SamplePois
    \/ CountRels \/ RelTypes \/ RelStatuses \/ ValidatedCount
    \/ CountEvidence
    \/ CountOutbox \/ OutboxStatus
    \/ EmptyNames \/ EmptyTypes \/ SamplePoiFull
    \/ ListTables \/ TableInfo \/ CountRows
    \/ Close
    \/ Rerun

Spec == Init /\ [][Next]_vars

\* The table lister alone, racing with the external writer.
InitRace == Init /\ script = "checkTables"
NextRace ==
    \/ Connect \/ ListTables \/ TableInfo \/ CountRows \/ Close
    \/ Rerun
    \/ DropTable
SpecRace == InitRace /\ [][NextRace]_vars

-----------------------------------------------------------------------------
\* Properties.

Analyzing == script = "analyzeDatabase"
Listing == script = "checkTables"
Ended == pc \in {"done", "failed"}
Printed(label, value) ==
    \E i \in DOMAIN output : output[i].label = label /\ output[i].value = value
QueriesOn(t) == {i \in DOMAIN queries : queries[i].table = t}

CountLabel(t) ==
    CASE t = "files" -> "Files processed"
      [] t = "pois" -> "POIs extracted"
      [] t = "relationships" -> "Relationships discovered"
      [] t = "relationship_evidence" -> "Relationship evidence entries"
      [] t = "transactional_outbox" -> "Transactional outbox entries"

\* C1: in analyze_database, once the row count read for files, pois,
\* relationships or transactional_outbox is 0, that 0 is printed and the
\* count query stays the only query of the run against that table.
ZeroCountSkipsDetails ==
    Analyzing =>
      \A t \in {"files", "pois", "relationships", "transactional_outbox"} :
        ( /\ t \in Range(db.catalog)
          /\ Len(db.rows[t]) = 0
          /\ \E i \in DOMAIN queries : queries[i] = Query("COUNT", t) )
        => /\ Printed(CountLabel(t), 0)
           /\ Cardinality(QueriesOn(t)) = 1
           /\ \A i \in QueriesOn(t) : queries[i].kind = "COUNT"

ZeroCountWitness ==
    /\ Analyzing /\ pc = "done"
    /\ "pois" \in Range(db.catalog) /\ Len(db.rows["pois"]) = 0
    /\ Printed("POIs extracted", 0)
    /\ file_count > 0 /\ rel_count > 0 /\ outbox_count > 0

RECURSIVE SumCounts(_)
SumCounts(groups) ==
    IF groups = {} THEN 0
    ELSE LET g == CHOOSE x \in groups : TRUE
         IN g[2] + SumCounts(groups \ {g})

Breakdowns ==
    { <<"POI types", "POIs extracted">>,
      <<"Relationship types", "Relationships discovered">>,
      <<"Relationship statuses", "Relationships discovered">>,
      <<"Outbox status", "Transactional outbox entries">> }

\* C2: every printed grouped breakdown sums to the total row count printed
\* for its table (the group of the NULL key included).
GroupedCountsSumToTotal ==
    Analyzing =>
      \A i \in DOMAIN output : \A b \in Breakdowns :
        output[i].label = b[1] =>
          \E j \in 1..(i - 1) :
            /\ output[j].label = b[2]
            /\ output[j].value = SumCounts(output[i].value)

GroupedCountsWitness ==
    /\ Analyzing /\ pc = "done"
    /\ \E i \in DOMAIN output :
         /\ output[i].label = "Relationship statuses"
         /\ Cardinality(output[i].value) = 2
         /\ <<NULL, 1>> \in output[i].value

\* C3: a failing query of analyze_database ends the run on the spot: it is
\* the last query issued, nothing is printed by or after the failing step,
\* and a run is failed exactly when its last query failed.
FailureAborts ==
    /\ [](Analyzing =>
            /\ \A i \in 1..(Len(queries) - 1) : QueryOk(queries[i])
            /\ pc = "failed" <=> (queries # <<>> /\ ~QueryOk(queries[Len(queries)])))
    /\ [][Analyzing =>
            /\ (pc # "failed" /\ pc' = "failed") => output' = output
            /\ (pc = "failed" /\ run' = run) => UNCHANGED <<queries, output, pc, conn>>]_vars

FailureWitness ==
    /\ Analyzing /\ pc = "failed"
    /\ Len(queries) > 3
    /\ Printed("Files processed", 1)
    /\ ~Printed("Relationships discovered", 1)

\* The queries of analyze_database in the order of the source.
CodeOrder ==
    << Query("COUNT", "files"), Query("SAMPLE", "files"),
       Query("COUNT", "pois"), Query("GROUP_TYPE", "pois"), Query("SAMPLE", "pois"),
       Query("COUNT", "relationships"), Query("GROUP_TYPE", "relationships"),
       Query("GROUP_STATUS", "relationships"), Query("VALIDATED", "relationships"),
       Query("COUNT", "relationship_evidence"),
       Query("COUNT", "transactional_outbox"),
       Query("GROUP_OUTBOX", "transactional_outbox"),
       Query("EMPTY_NAME", "pois"), Query("EMPTY_TYPE", "pois"),
       Query("DUMP", "pois") >>

\* The queries in the order the specification lists them (the sample of
\* files is not in that list).
ListedOrder ==
    << Query("COUNT", "files"), Query("COUNT", "pois"),
       Query("COUNT", "relationships"), Query("COUNT", "relationship_evidence"),
       Query("COUNT", "transactional_outbox"),
       Query("SAMPLE", "pois"), Query("GROUP_TYPE", "pois"),
       Query("GROUP_TYPE", "relationships"), Query("GROUP_STATUS", "relationships"),
       Query("VALIDATED", "relationships"),
       Query("GROUP_OUTBOX", "transactional_outbox"),
       Query("EMPTY_NAME", "pois"), Query("EMPTY_TYPE", "pois"),
       Query("DUMP", "pois") >>

Position(q, order) == CHOOSE k \in DOMAIN order : order[k] = q

\* C4 as stated: the queries are issued in the listed order, all five
\* counts first and the sample of pois before its breakdown.
QueriesInListedOrder ==
    Analyzing =>
      \A i, j \in DOMAIN queries :
        (i < j /\ queries[i] \in Range(ListedOrder) /\ queries[j] \in Range(ListedOrder))
        => Position(queries[i], ListedOrder) < Position(queries[j], ListedOrder)

\* The queries a run on db issues if none fails: each count, and a table's
\* detail queries only when the table has rows.
ExpectedQueries ==
    SelectSeq(CodeOrder, LAMBDA q : q.kind = "COUNT" \/ Len(db.rows[q.table]) > 0)

\* C4 (amended): the queries are issued in the order of the source, each
\* table's count directly followed by that table's detail queries, the
\* breakdown of pois before its sample; a run that reaches the end has
\* issued all of them.
QueriesInCodeOrder ==
    Analyzing =>
      /\ IsPrefix(queries, ExpectedQueries)
      /\ pc \in {"Close", "done"} => queries = ExpectedQueries

QueriesInCodeOrderWitness ==
    /\ Analyzing /\ pc = "done"
    /\ queries = CodeOrder

\* C5 as stated: the table lister prints the catalog's tables, and for each
\* of them its declared columns in order and its row count.
ListerReportsEveryTable ==
    (Listing /\ Ended) =>
      /\ Printed("Tables in database", db.catalog)
      /\ \A k \in DOMAIN db.catalog :
           \E i \in DOMAIN output :
             /\ i + 2 <= Len(output)
             /\ output[i].label = "structure"
             /\ output[i].value = db.catalog[k]
             /\ output[i + 1].label = "columns"
             /\ output[i + 1].value = db.columns[db.catalog[k]]
             /\ output[i + 2].label = "Row count"
             /\ output[i + 2].value = Len(db.rows[db.catalog[k]])

\* C6: no step of either script changes the database, and a second run on
\* it prints what the first run printed.
ReadOnly ==
    /\ [][db' = db]_vars
    /\ []((run > 1 /\ Ended) => output = prevOutput)

ReadOnlyWitness ==
    /\ run = 2 /\ pc = "done" /\ Analyzing
    /\ Len(output) > 10
    /\ output = prevOutput

\* C7: the printed empty-name (empty-type) count is the number of pois rows
\* whose name (type) is NULL or '', between 0 and the number of rows, and
\* is printed only for a table with rows.
EmptyCountsExact ==
    Analyzing =>
      \A i \in DOMAIN output : \A c \in {"name", "type"} :
        output[i].label = (IF c = "name" THEN "POIs with empty names"
                                         ELSE "POIs with empty types") =>
          LET rws == db.rows["pois"]
          IN /\ Len(rws) > 0
             /\ output[i].value =
                  Cardinality({k \in DOMAIN rws : rws[k][c] \in {NULL, ""}})
             /\ output[i].value \in 0..Len(rws)

EmptyCountsWitness ==
    /\ Analyzing /\ pc = "done"
    /\ Printed("POIs with empty names", 2)
    /\ Printed("POIs with empty types", 1)
    /\ Len(db.rows["pois"]) = 3

ConnectionLifecycle ==
    /\ conn = "none" <=> pc = "Connect"
    /\ conn = "closed" <=> pc = "done"
    /\ pc = "done" => closes = 1
    /\ pc # "done" => closes = 0
    /\ pc = "failed" => conn = "open"
    /\ ~Ended => ENABLED Next

ConnectionLeftOpenWitness ==
    /\ pc = "failed" /\ conn = "open" /\ closes = 0
    /\ Analyzing /\ Len(output) > 2

RowCountLines == Cardinality({i \in DOMAIN output : output[i].label = "Row count"})

\* C10: checkTables reads the catalog once, first; a listed table dropped
\* before its inspection is neither skipped nor reported with a row count,
\* the run cannot get past it to its end, and a failed run has printed the
\* row counts of the tables before the one it failed on.
DroppedTableFailsRun ==
    Listing =>
      /\ \A i \in DOMAIN queries : queries[i].kind = "CATALOG" <=> i = 1
      /\ pc \in {"TableInfo", "CountRows", "failed"} => RowCountLines = idx - 1
      /\ \A k \in DOMAIN tables :
           tables[k] \in droppedEarly =>
             /\ idx <= k
             /\ pc \notin {"Close", "done"}
             /\ RowCountLines < k
      /\ ~Ended => ENABLED NextRace

DroppedTableWitness ==
    /\ Listing /\ pc = "failed"
    /\ idx = 2
    /\ tables[idx] \in droppedEarly
    /\ Parses(tables[idx])
    /\ RowCountLines = 1
====
